---- MODULE Spec2Model ----
(***************************************************************************)
(* Model of the HTTP file-upload service of main.go: the storage           *)
(* directory "uploads", the append-only log file "log.txt", the four       *)
(* handlers registered on the default mux, and the helpers writeLog,       *)
(* generateUUID and getFileList.                                           *)
(*                                                                         *)
(* Strings are sequences of one-character strings, file contents are       *)
(* sequences of bytes.  An upload request runs as a goroutine of its own:  *)
(* its steps that touch the file system (os.OpenFile, every write of       *)
(* io.Copy, the append of writeLog) interleave with the steps of the       *)
(* other requests.  The other handlers only read and are served in one     *)
(* step.                                                                   *)
(***************************************************************************)
EXTENDS Integers, Sequences, FiniteSets, TLC

VARIABLES
    config,   \* var config Config (only LogTimestamp is read by the handlers)
    disk,     \* the regular files below uploadsDir: path -> bytes
    logFile,  \* the bytes of log.txt
    up,       \* the POST /upload requests that passed r.FormFile, in arrival order
    resp      \* the response completed by the latest step, for the requests
              \* that are served in one step

vars == <<config, disk, logFile, up, resp>>

\* ------------------------------------------------------------------ bounds

\* Number of POST /upload requests that get past r.FormFile.
MaxUploads == 2
\* Longest uploaded content, in bytes.
MaxLen == 2

\* ------------------------------------------------------- program constants

StatusOK == 200
StatusBadRequest == 400
StatusNotFound == 404
StatusInternalServerError == 500

\* ------------------------------------------------------------------ inputs

Bytes == {1, 2}

\* The bodies a client may upload: up to MaxLen bytes.  To keep two bodies
\* apart one byte value per body is enough, so a body repeats one byte.
Contents == {[i \in 1 .. n |-> b] : n \in 0 .. MaxLen, b \in Bytes}

\* The file names a client may supply in the multipart part (handler.Filename):
\* one without extension, one with two dots ("report.final.pdf") and one
\* holding a line feed (a part header filename*=UTF-8''a%0Ab is decoded by
\* mime.ParseMediaType to "a\nb"; filepath.Base keeps it).
Filenames ==
    { <<"a">>,
      <<"r", ".", "f", ".", "p">>,
      <<"a", "\n", "b">> }

Methods == {"GET", "POST", "PUT"}

\* The i-th token uuid.NewRandom hands out.  Random 128-bit tokens are taken
\* to be fresh: no two draws return the same token.
UUIDToken(i) == "u" \o ToString(i)

\* ------------------------------------------------------- path/filepath

\* const uploadsDir = "uploads": one path element.
uploadsDir == "uploads"

\* filepath.Ext: the suffix beginning at the final dot of the final element
\* of path; empty if there is no dot.
RECURSIVE ExtFrom(_, _)
ExtFrom(path, i) ==
    IF i < 1 THEN <<>>
    ELSE IF path[i] = "/" THEN <<>>
    ELSE IF path[i] = "." THEN SubSeq(path, i, Len(path))
    ELSE ExtFrom(path, i - 1)

Ext(path) == ExtFrom(path, Len(path))

RECURSIVE StripTrailingSep(_)
StripTrailingSep(path) ==
    IF Len(path) > 0 /\ path[Len(path)] = "/"
    THEN StripTrailingSep(SubSeq(path, 1, Len(path) - 1))
    ELSE path

RECURSIVE LastSep(_, _)
LastSep(path, i) ==
    IF i < 1 THEN 0 ELSE IF path[i] = "/" THEN i ELSE LastSep(path, i - 1)

\* filepath.Base: the last element of path; "." for the empty path.
Base(path) ==
    IF path = <<>> THEN <<".">>
    ELSE LET p == StripTrailingSep(path)
         IN  IF p = <<>> THEN <<"/">>
             ELSE SubSeq(p, LastSep(p, Len(p)) + 1, Len(p))

\* filepath.Join(uploadsDir, elem): the empty element is dropped and the
\* result is cleaned, so "" and "." give the directory itself.  (Elements
\* holding "/" or ".." are not among the identifiers of this model.)
Join(dir, elem) ==
    IF elem = <<>> \/ elem = <<".">> THEN <<dir>> ELSE <<dir, "/">> \o elem

\* filepath.Rel(uploadsDir, path) for a path below uploadsDir.
Rel(dir, path) ==
    IF path = <<dir>> THEN <<".">> ELSE SubSeq(path, 3, Len(path))

\* ------------------------------------------------------------ file system

\* os.Stat(path) succeeds: the directory main created, or a regular file.
Exists(path) == path = <<uploadsDir>> \/ path \in DOMAIN disk

IsDir(path) == path = <<uploadsDir>>

\* A write of data at offset off of a file holding old: the bytes past the
\* written range stay (the file is opened without O_TRUNC).
WriteAt(old, off, data) ==
    SubSeq(old, 1, off) \o data \o SubSeq(old, off + Len(data) + 1, Len(old))

\* ------------------------------------------------------------- responses

NoRequest == [route |-> "", method |-> "", id |-> <<>>]

Response(req, status, kind) ==
    [req |-> req, status |-> status, kind |-> kind,
     files |-> {}, names |-> {}, data |-> <<>>]

\* http.NotFound
NotFound(req) == Response(req, StatusNotFound, "notfound")

\* No request was completed by the latest step.
NoResponse == Response(NoRequest, 0, "none")

\* generateUUID: "" when uuid.NewRandom returns an error, else the token's
\* text.
generateUUID(err, i) == IF err THEN <<>> ELSE <<UUIDToken(i)>>

\* getFileList: filepath.Walk over uploadsDir; one FileMetadata per entry
\* that is not a directory.  (Walk's lexical order is not modelled: the
\* list is the set of its entries.)
getFileList ==
    { [ID |-> Rel(uploadsDir, path), Filename |-> Base(Rel(uploadsDir, path))]
        : path \in DOMAIN disk }

\* http.ServeFile(w, r, filePath) once os.Stat succeeded.  A regular file is
\* streamed.  For a directory whose URL ends in "/" (the identifier is
\* empty) net/http looks for index.html, which no upload can create (every
\* stored name is "<uuid><ext>" or "<ext>"), and then writes the directory
\* listing.
ServeFile(req, filePath) ==
    IF IsDir(filePath)
    THEN [Response(req, StatusOK, "dirlist") EXCEPT
            !.names = {Base(path) : path \in DOMAIN disk}]
    ELSE [Response(req, StatusOK, "file") EXCEPT !.data = disk[filePath]]

\* ---------------------------------------------------------------- writeLog

\* The text appended for one upload: fmt.Sprintf("%s\n", message).
LogLine(message) == message \o <<"\n">>

\* How many bytes of line a WriteString may fail to write: none, or, when
\* the write fails, some.  Of the failed writes the model takes the one that
\* stops before the final line feed and the one that writes nothing.
Unwritten(line) == {0, 1, Len(line)}

\* writeLog(message): log.txt is opened O_WRONLY|O_CREATE|O_APPEND, so the
\* bytes of one write land at the end of the file whatever other requests
\* appended meanwhile.  Gives the new content of log.txt.
writeLog(message, openErr, unwritten) ==
    IF openErr THEN logFile
    ELSE logFile \o SubSeq(LogLine(message), 1, Len(LogLine(message)) - unwritten)

\* writeLog printed its diagnostic.
writeLogFailed(message, openErr, unwritten) == openErr \/ unwritten > 0

\* time.Now().Format("2006-01-02 15:04:05") wrapped by fmt.Sprintf(" [%s]"):
\* the clock's text is one opaque symbol.
Timestamp == <<" ", "[", "ts", "]">>

\* logMessage of uploadHandler.
logMessage(filename) ==
    IF config.LogTimestamp THEN filename \o Timestamp ELSE filename

\* ---------------------------------------------------------------- handlers

Init ==
    /\ config \in [LogTimestamp : BOOLEAN]
    /\ disk = <<>>
    /\ logFile = <<>>
    /\ up = <<>>
    /\ resp = NoResponse

\* indexHandler
indexHandler(method) ==
    LET req == [route |-> "/", method |-> method, id |-> <<>>]
    IN  /\ resp' = IF method = "GET" THEN Response(req, StatusOK, "form")
                   ELSE NotFound(req)
        /\ UNCHANGED <<config, disk, logFile, up>>

\* uploadHandler, a method other than POST.
uploadNotFound(method) ==
    /\ method # "POST"
    /\ resp' = NotFound([route |-> "/upload", method |-> method, id |-> <<>>])
    /\ UNCHANGED <<config, disk, logFile, up>>

\* uploadHandler, r.FormFile fails.
uploadBadRequest ==
    /\ resp' = Response([route |-> "/upload", method |-> "POST", id |-> <<>>],
                        StatusBadRequest, "error")
    /\ UNCHANGED <<config, disk, logFile, up>>

\* Mutant of fileIDOf: the extension of the original name is dropped.
fileIDOfNoExt(filename, uuidErr, i) == generateUUID(uuidErr, i)

\* The on-disk name uploadHandler derives.
fileIDOf(filename, uuidErr, i) == generateUUID(uuidErr, i) \o Ext(filename)

\* uploadHandler from r.FormFile to os.OpenFile(filePath, O_WRONLY|O_CREATE):
\* opening the directory itself fails, as does an open the system refuses;
\* otherwise the file is created when absent and kept as it is when present.
uploadOpen(filename, content, uuidErr, openErr) ==
    LET fileID == fileIDOf(filename, uuidErr, Len(up) + 1)
        filePath == Join(uploadsDir, fileID)
        opened == ~openErr /\ ~IsDir(filePath)
        errs == (IF uuidErr THEN {"uuid"} ELSE {}) \cup (IF opened THEN {} ELSE {"open"})
    IN  /\ Len(up) < MaxUploads
        /\ up' = Append(up,
                   [pc |-> IF ~opened THEN "done"
                           ELSE IF content = <<>> THEN "log" ELSE "copy",
                    filename |-> filename, content |-> content,
                    fileID |-> fileID, n |-> 0,
                    status |-> IF opened THEN 0 ELSE StatusInternalServerError,
                    errs |-> errs])
        /\ disk' = IF opened /\ filePath \notin DOMAIN disk
                   THEN disk @@ (filePath :> <<>>) ELSE disk
        /\ resp' = NoResponse
        /\ UNCHANGED <<config, logFile>>

\* Mutant of uploadCopy: a failed write removes the file it was writing.
uploadCopyCleanup(p, writeErr) ==
    LET u == up[p]
        filePath == Join(uploadsDir, u.fileID)
    IN  /\ u.pc = "copy"
        /\ IF ~writeErr
           THEN /\ disk' = [disk EXCEPT ![filePath] =
                               WriteAt(@, u.n, SubSeq(u.content, u.n + 1, u.n + 1))]
                /\ up' = [up EXCEPT ![p].n = u.n + 1,
                                    ![p].pc = IF u.n + 1 = Len(u.content)
                                              THEN "log" ELSE "copy"]
           ELSE /\ disk' = [path \in DOMAIN disk \ {filePath} |-> disk[path]]
                /\ up' = [up EXCEPT ![p].pc = "done",
                                    ![p].status = StatusInternalServerError,
                                    ![p].errs = @ \cup {"copy"}]
        /\ resp' = NoResponse
        /\ UNCHANGED <<config, logFile>>

\* One write of io.Copy(f, file): the next byte goes to f's offset; a failed
\* write ends the request with 500 and leaves the file as it is.
uploadCopy(p, writeErr) ==
    LET u == up[p]
        filePath == Join(uploadsDir, u.fileID)
    IN  /\ u.pc = "copy"
        /\ IF ~writeErr
           THEN /\ disk' = [disk EXCEPT ![filePath] =
                               WriteAt(@, u.n, SubSeq(u.content, u.n + 1, u.n + 1))]
                /\ up' = [up EXCEPT ![p].n = u.n + 1,
                                    ![p].pc = IF u.n + 1 = Len(u.content)
                                              THEN "log" ELSE "copy"]
           ELSE /\ disk' = disk
                /\ up' = [up EXCEPT ![p].pc = "done",
                                    ![p].status = StatusInternalServerError,
                                    ![p].errs = @ \cup {"copy"}]
        /\ resp' = NoResponse
        /\ UNCHANGED <<config, logFile>>

\* uploadHandler after the copy: writeLog(logMessage), then the success page
\* with the link /file/<fileID>.
uploadLog(p, openErr, unwritten) ==
    LET u == up[p]
        message == logMessage(u.filename)
    IN  /\ u.pc = "log"
        /\ logFile' = writeLog(message, openErr, unwritten)
        /\ up' = [up EXCEPT ![p].pc = "done",
                            ![p].status = StatusOK,
                            ![p].errs = IF writeLogFailed(message, openErr, unwritten)
                                        THEN @ \cup {"log"} ELSE @]
        /\ resp' = NoResponse
        /\ UNCHANGED <<config, disk>>

\* Mutant of listHandler: the list is rendered whatever the method.
listHandlerAnyMethod(method) ==
    LET req == [route |-> "/list", method |-> method, id |-> <<>>]
    IN  /\ resp' = [Response(req, StatusOK, "list") EXCEPT !.files = getFileList]
        /\ UNCHANGED <<config, disk, logFile, up>>

\* listHandler
listHandler(method) ==
    LET req == [route |-> "/list", method |-> method, id |-> <<>>]
    IN  /\ resp' = IF method = "GET"
                   THEN [Response(req, StatusOK, "list") EXCEPT !.files = getFileList]
                   ELSE NotFound(req)
        /\ UNCHANGED <<config, disk, logFile, up>>

\* The response of fileHandler to a request for /file/<fileID>.
fileResponse(method, fileID) ==
    LET req == [route |-> "/file/", method |-> method, id |-> fileID]
        filePath == Join(uploadsDir, fileID)
    IN  IF method = "GET"
        THEN IF ~Exists(filePath) THEN NotFound(req) ELSE ServeFile(req, filePath)
        ELSE NotFound(req)

\* fileHandler
fileHandler(method, fileID) ==
    /\ resp' = fileResponse(method, fileID)
    /\ UNCHANGED <<config, disk, logFile, up>>

\* The identifiers a client may ask for: those of the stored files, the
\* empty one (the URL /file/) and one that no upload produces.
RequestIDs == {Rel(uploadsDir, path) : path \in DOMAIN disk} \cup {<<>>, <<"x">>}

\* The requests the server may be sent, one per pattern registered in main
\* and outcome; every request runs as soon as it arrives.
IndexRequest == \E method \in Methods : indexHandler(method)

UploadOtherMethod == \E method \in Methods : uploadNotFound(method)

UploadMalformed == uploadBadRequest

UploadArrives ==
    \E filename \in Filenames, content \in Contents, uuidErr, openErr \in BOOLEAN :
        uploadOpen(filename, content, uuidErr, openErr)

UploadCopies == \E p \in DOMAIN up, writeErr \in BOOLEAN : uploadCopy(p, writeErr)

UploadLogs ==
    \E p \in DOMAIN up, openErr \in BOOLEAN :
        \E unwritten \in Unwritten(LogLine(logMessage(up[p].filename))) :
            uploadLog(p, openErr, unwritten)

ListRequest == \E method \in Methods : listHandler(method)

FileRequest == \E method \in Methods, fileID \in RequestIDs : fileHandler(method, fileID)

Next ==
    \/ IndexRequest
    \/ UploadOtherMethod
    \/ UploadMalformed
    \/ UploadArrives
    \/ UploadCopies
    \/ UploadLogs
    \/ ListRequest
    \/ FileRequest

Spec == Init /\ [][Next]_vars

\* ------------------------------------------------------------ vocabulary

Done(p) == up[p].pc = "done"

\* The upload was answered with the success page.
Succeeded(p) == up[p].status = StatusOK

\* No upload is in progress.
Quiescent == \A p \in DOMAIN up : Done(p)

\* The identifiers of the stored files.
StoredIDs == {Rel(uploadsDir, path) : path \in DOMAIN disk}

\* The single method each route serves.
Allowed(route) == IF route = "/upload" THEN "POST" ELSE "GET"

\* The complete lines of a text (without their line feeds), in order, and
\* what follows the last line feed.
RECURSIVE LinesFrom(_, _, _)
LinesFrom(text, i, cur) ==
    IF i > Len(text) THEN [lines |-> <<>>, rest |-> cur]
    ELSE IF text[i] = "\n"
         THEN LET more == LinesFrom(text, i + 1, <<>>)
              IN  [lines |-> <<cur>> \o more.lines, rest |-> more.rest]
         ELSE LinesFrom(text, i + 1, Append(cur, text[i]))

Lines(text) == LinesFrom(text, 1, <<>>).lines

Rest(text) == LinesFrom(text, 1, <<>>).rest

\* How often x occurs in the sequence s.
Count(x, s) == Cardinality({i \in DOMAIN s : s[i] = x})

\* ------------------------------------------------------------------ claims

\* C1: once the uploads have finished, every upload that was answered with
\* the success page is read back by GET /file/<id>, on the identifier of its
\* link, as exactly the uploaded bytes.
C1_RoundTrip ==
    Quiescent =>
        \A p \in DOMAIN up :
            Succeeded(p) =>
                LET r == fileResponse("GET", up[p].fileID)
                IN  r.status = StatusOK /\ r.kind = "file" /\ r.data = up[p].content

\* C2: with no upload in progress, GET /list has exactly as many entries as
\* uploads were answered with the success page, and GET /file/<id> serves a
\* stored file for every listed identifier.
C2_ListCount ==
    Quiescent =>
        /\ Cardinality(getFileList) = Cardinality({p \in DOMAIN up : Succeeded(p)})
        /\ \A e \in getFileList : fileResponse("GET", e.ID).kind = "file"

WrongMethodServed(r) ==
    /\ r.req.route \in {"/", "/upload", "/list", "/file/"}
    /\ r.req.method # Allowed(r.req.route)

\* C4: a request with a method its route does not serve is answered with
\* 404 and nothing else, and the step leaves the storage directory and the
\* log file as they were.
C4_WrongMethodNotFound ==
    [][WrongMethodServed(resp') =>
          /\ resp'.status = StatusNotFound
          /\ resp'.kind = "notfound"
          /\ disk' = disk
          /\ logFile' = logFile]_vars

C4_Witness ==
    /\ WrongMethodServed(resp)
    /\ resp.req.route = "/list"
    /\ resp.status = StatusNotFound
    /\ disk # <<>>
    /\ logFile # <<>>

\* C5: GET /file/<id> for an identifier that no stored file has, the empty
\* identifier included, is answered with 404 and serves no content.
C5_UnknownIDNotFound ==
    (/\ resp.req.route = "/file/"
     /\ resp.req.method = "GET"
     /\ resp.req.id \notin StoredIDs)
        => (resp.status = StatusNotFound /\ resp.data = <<>> /\ resp.names = {})

\* C6: two uploads answered with the success page never have the same
\* identifier.
C6_DistinctIDs ==
    \A p, q \in DOMAIN up :
        (p # q /\ Succeeded(p) /\ Succeeded(q)) => up[p].fileID # up[q].fileID

\* The storage itself refused the upload: os.OpenFile was refused on a path
\* that is not the directory, or a write of the copy failed.
StorageRefused(p) ==
    \/ "copy" \in up[p].errs
    \/ "open" \in up[p].errs /\ ~IsDir(Join(uploadsDir, up[p].fileID))

\* C7: an upload that met only best-effort errors (identifier generation,
\* the log file) ends as one that met none: answered with the success page,
\* its file stored.
C7_BestEffortErrorsKeepOutcome ==
    \A p \in DOMAIN up :
        (Done(p) /\ ~StorageRefused(p)) =>
            (Succeeded(p) /\ Join(uploadsDir, up[p].fileID) \in DOMAIN disk)

\* The file of upload p was there when p opened it: an upload that arrived
\* before p opened the same path.
ExistedBefore(p) ==
    \E q \in 1 .. p - 1 : up[q].fileID = up[p].fileID /\ "open" \notin up[q].errs

\* No other upload is writing to the file of upload p.
AloneOnFile(p) ==
    \A q \in DOMAIN up : (q # p /\ up[q].fileID = up[p].fileID) => Done(q)

\* C8: when the file of an upload was there before, and no other upload is
\* writing to it, then at the step that answers the upload with the success
\* page the file holds exactly the bytes of that upload.
C8_SaveTruncates ==
    [][\A p \in DOMAIN up :
          (/\ ~Succeeded(p) /\ up'[p].status = StatusOK
           /\ ExistedBefore(p) /\ AloneOnFile(p)) =>
              disk'[Join(uploadsDir, up[p].fileID)] = up[p].content]_vars

\* The upload ended because a write of its copy failed.
CopyInterrupted(p) == "copy" \in up[p].errs

\* C9: an upload whose copy is interrupted is answered with 500 at a step
\* that appends nothing to the log and removes nothing from the storage
\* directory, and from then on its file is listed by GET /list and served
\* by GET /file/<id>.
C9_PartialFileStays ==
    /\ [][\A p \in DOMAIN up :
            (up[p].pc = "copy" /\ up'[p].pc = "done") =>
                /\ up'[p].status = StatusInternalServerError
                /\ logFile' = logFile
                /\ disk' = disk]_vars
    /\ [](\A p \in DOMAIN up :
            CopyInterrupted(p) =>
                /\ up[p].status = StatusInternalServerError
                /\ \E e \in getFileList : e.ID = up[p].fileID
                /\ fileResponse("GET", up[p].fileID).kind = "file"
                /\ fileResponse("GET", up[p].fileID).status = StatusOK)

C9_Witness ==
    /\ resp.kind = "list"
    /\ \E p \in DOMAIN up :
          /\ CopyInterrupted(p)
          /\ up[p].n = 1
          /\ disk[Join(uploadsDir, up[p].fileID)] = SubSeq(up[p].content, 1, 1)
          /\ \E e \in resp.files : e.ID = up[p].fileID

\* The log messages of the uploads answered with the success page, in
\* arrival order.
Messages == [p \in {q \in DOMAIN up : Succeeded(q)} |-> logMessage(up[p].filename)]

\* C10: once every upload has finished, and none met a log error, log.txt
\* consists of whole lines, one per upload answered with the success page:
\* each such upload's message (its file name, then the timestamp if
\* configured) is a line as often as it was uploaded, and there is no other
\* line.
C10_OneLinePerUpload ==
    (Quiescent /\ \A p \in DOMAIN up : "log" \notin up[p].errs) =>
        /\ Rest(logFile) = <<>>
        /\ Len(Lines(logFile)) = Cardinality(DOMAIN Messages)
        /\ \A p \in DOMAIN Messages :
              Count(Messages[p], Lines(logFile))
                  = Cardinality({q \in DOMAIN Messages : Messages[q] = Messages[p]})

\* Beside C10: the same statement for uploads whose names hold no line feed.
\* The appends of concurrent requests neither lose nor merge lines.
LogLinesOfPlainNames ==
    (\A p \in DOMAIN up : \A i \in DOMAIN up[p].filename : up[p].filename[i] # "\n")
        => C10_OneLinePerUpload

====
